---- MODULE Spec2Model ----
(***************************************************************************)
(* Model of cmd/influxd's Main.Run (src/unnamed/part_000): command         *)
(* dispatch and, for the "run" command, the two-stage shutdown wait of the *)
(* main goroutine, together with its environment: the operating system     *)
(* delivering termination signals through os/signal, the runtime timer     *)
(* behind time.After, and the goroutine running cmd.Close().               *)
(* The engine registry that package engine (src/unnamed/part_001) fills at  *)
(* initialization is modelled beside it, with a specification of its own.  *)
(***************************************************************************)
EXTENDS Naturals, Sequences, FiniteSets, TLC

(* ---------------------------------------------------------------- bounds *)

\* How many termination signals the operating system sends in one run.
MaxSignals == 3

\* How many Register calls the initialization phase makes.
MaxRegister == 3

(* ------------------------------------------------------ program constants *)

\* make(chan os.Signal, 1): the capacity of signalCh.
SignalChCap == 1

\* time.After(time.Second * 30): the deadline, in one-second clock ticks.
Deadline == 30

\* os.Exit(1) of main, and the status of a main that returns.
ExitFailure == 1
ExitSuccess == 0

(* -------------------------------------------------------------- constants *)

\* signal.Notify(signalCh, os.Interrupt, syscall.SIGTERM)
Signals == {"SIGINT", "SIGTERM"}

\* The messages of the m.Logger.Info calls of Main.Run.
MsgListening == "Listening for signals"
MsgSignal == "Signal received, initializing clean shutdown..."
MsgWaiting == "Waiting for clean shutdown..."
MsgSecondSignal == "second signal received, initializing hard shutdown"
MsgTimeLimit == "time limit reached, initializing hard shutdown"
MsgCompleted == "server shutdown completed"

\* The three log lines that end the second wait.
OutcomeMsgs == {MsgSecondSignal, MsgTimeLimit, MsgCompleted}

\* A switch whose run case lists "run" only.
RunNamesWithoutEmpty == {"run"}

\* The names the switch of Main.Run has a case for.
RunNames == {"", "run"}
SubNames == {"backup", "restore", "config", "version", "help"}

\* The command lines tried: none, an empty name, each known command, and
\* unknown ones (one followed by a known name, one differing from a known name
\* in case only).
ArgsSet == {<<>>, <<"">>, <<"run">>, <<"backup">>, <<"restore">>, <<"config">>,
            <<"version">>, <<"help">>, <<"bogus">>, <<"bogus", "run">>,
            <<"RUN">>}

\* Errors a subsystem entry point may return: a message and, for an error
\* that wraps another, the wrapped error (<<>> when it wraps none).
NoError == [msg |-> <<>>, cause |-> <<>>]
SubsystemErrors == {[msg |-> <<"e1">>, cause |-> <<>>]}

\* cmd.ParseCommandName: the first token is the name, "" when there is none.
ParseCommandName(a) == IF a = <<>> THEN "" ELSE Head(a)

\* fmt.Errorf("<prefix>: %s", err): a new error whose message is the prefix
\* followed by err's message; %s formats the message and keeps no cause.
Errorf(prefix, err) == [msg |-> <<prefix>> \o err.msg, cause |-> <<>>]

\* fmt.Errorf(`unknown command "%s"` ... `Run 'influxd help' for usage`, name)
UnknownCommandError(n) ==
    [msg |-> <<"unknown command", n, "Run 'influxd help' for usage">>,
     cause |-> <<>>]

(* --------------------------------------------------------------- registry *)

\* The names engines register under, and the constructors they register.
EngineNames == {"tsm1", "b1", "bz1"}
Factories == {"NewEngine1", "NewEngine2"}
NotFound == "NotFound"

\* The registry before any Register call.
EmptyRegistry == [n \in EngineNames |-> NotFound]

\* A Register that replaces the entry of a name already registered.
RegisterOverwrites(reg, n, f) ==
    [registry |-> [reg EXCEPT ![n] = f], fatal |-> FALSE]

\* Register(name, factory): a name already registered is a fatal conflict
\* and leaves the entry as it is; otherwise the entry is added.
Register(reg, n, f) ==
    IF reg[n] # NotFound
    THEN [registry |-> reg, fatal |-> TRUE]
    ELSE [registry |-> [reg EXCEPT ![n] = f], fatal |-> FALSE]

\* Lookup(name): the factory registered under the name, or NotFound.
Lookup(reg, n) == reg[n]

\* import _ ".../tsdb/engine/tsm1": linking the package in registers tsm1.
ImportedCalls == << <<"tsm1", "NewEngine1">> >>
ImportedRegistry ==
    Register(EmptyRegistry, ImportedCalls[1][1], ImportedCalls[1][2]).registry

(* ------------------------------------------------------------------ state *)

VARIABLES
    args,         \* os.Args[1:]
    pc,           \* where main / Main.Run is
    result,       \* <<err>> once Main.Run has returned err, <<>> before
    exitCode,     \* <<status>> once main has ended, <<>> before
    invoked,      \* the subsystem entry points Main.Run has called
    startFailed,  \* cmd.Run of the run command returned an error
    log,          \* the lines written through m.Logger.Info
    registered,   \* signal.Notify has been called
    signalCh,     \* the buffered channel signalCh
    timerArmed,   \* time.After has been evaluated
    elapsed,      \* seconds since time.After was evaluated
    timerCh,      \* the channel time.After returned holds a value
    closeState,   \* the goroutine of cmd.Close()
    closedCh,     \* cmd.Closed has been closed
    nDelivered,   \* signals the operating system has sent
    nQueued,      \* signals os/signal has put into signalCh
    nConsumed,    \* signals Main.Run has received from signalCh
    events,       \* second-stage events, in the order they fired
    readyAtEnd,   \* the select cases that could proceed when one was taken
    entryErr,     \* <<err>> once a subsystem entry point has returned err
    registry,     \* the engine registry: name -> factory or NotFound
    regFatal,     \* a Register call ended in the fatal conflict
    regDone,      \* the initialization phase is over
    regCalls,     \* the Register calls made, in order, as <<name, factory>>
    lastLookup    \* <<name, result>> of the latest Lookup, <<>> before any

vars == <<args, pc, result, exitCode, invoked, startFailed, log, registered,
          signalCh, timerArmed, elapsed, timerCh, closeState, closedCh,
          nDelivered, nQueued, nConsumed, events, readyAtEnd, entryErr,
          registry, regFatal, regDone, regCalls, lastLookup>>

regVars == <<registry, regFatal, regDone, regCalls, lastLookup>>

coordVars == <<args, pc, result, exitCode, invoked, startFailed, log,
               registered, timerArmed, readyAtEnd, entryErr>>

Name == ParseCommandName(args)

\* The process exists: main has not ended and no signal has killed it.
Alive == pc \notin {"exited", "killed"}

TypeOK ==
    /\ args \in ArgsSet
    /\ pc \in {"main", "notify", "announce", "wait1", "spawn", "select",
               "selectWait", "returned", "exited", "killed"}
    /\ exitCode \in {<<>>, <<ExitSuccess>>, <<ExitFailure>>}
    /\ invoked \subseteq (SubNames \cup {"run"})
    /\ startFailed \in BOOLEAN
    /\ registered \in BOOLEAN
    /\ signalCh \in Seq(Signals) /\ Len(signalCh) <= SignalChCap
    /\ timerArmed \in BOOLEAN
    /\ elapsed \in 0..Deadline
    /\ timerCh \in 0..1
    /\ closeState \in {"notStarted", "running", "returnedNil", "returnedErr"}
    /\ closedCh \in BOOLEAN
    /\ nDelivered \in 0..MaxSignals
    /\ nQueued \in 0..MaxSignals
    /\ nConsumed \in 0..MaxSignals
    /\ Len(entryErr) <= 1
    /\ registry \in [EngineNames -> Factories \cup {NotFound}]
    /\ regFatal \in BOOLEAN
    /\ regDone \in BOOLEAN
    /\ Len(regCalls) <= MaxRegister

\* main is entered: nothing of Main.Run has happened yet.
MainInit(argSet) ==
    /\ args \in argSet
    /\ pc = "main"
    /\ result = <<>>
    /\ exitCode = <<>>
    /\ invoked = {}
    /\ startFailed = FALSE
    /\ log = <<>>
    /\ registered = FALSE
    /\ signalCh = <<>>
    /\ timerArmed = FALSE
    /\ elapsed = 0
    /\ timerCh = 0
    /\ closeState = "notStarted"
    /\ closedCh = FALSE
    /\ nDelivered = 0
    /\ nQueued = 0
    /\ nConsumed = 0
    /\ events = <<>>
    /\ readyAtEnd = {}
    /\ entryErr = <<>>

\* The process as main starts: the initialization phase has registered the
\* engines linked in.
Init ==
    /\ MainInit(ArgsSet)
    /\ registry = ImportedRegistry
    /\ regFatal = FALSE
    /\ regDone = TRUE
    /\ regCalls = ImportedCalls
    /\ lastLookup = <<>>

(* ------------------------------------------------- Main.Run: run command *)

envVars == <<signalCh, elapsed, timerCh, closeState, closedCh, nDelivered,
             nQueued, nConsumed, events>>

\* case "", "run": cmd.Run(args...) returns nil.
StartOk ==
    /\ pc = "main"
    /\ Name \in RunNames
    /\ entryErr' = <<NoError>>
    /\ invoked' = invoked \cup {"run"}
    /\ pc' = "notify"
    /\ UNCHANGED <<args, result, exitCode, startFailed, log, registered,
                   timerArmed, readyAtEnd>>
    /\ UNCHANGED envVars
    /\ UNCHANGED regVars

\* A start whose error is not checked: Main.Run goes on to signal.Notify.
StartFailIgnored ==
    /\ pc = "main"
    /\ Name \in RunNames
    /\ \E e \in SubsystemErrors : entryErr' = <<e>>
    /\ invoked' = invoked \cup {"run"}
    /\ startFailed' = TRUE
    /\ pc' = "notify"
    /\ UNCHANGED <<args, result, exitCode, log, registered, timerArmed,
                   readyAtEnd>>
    /\ UNCHANGED envVars
    /\ UNCHANGED regVars

\* case "", "run": cmd.Run(args...) returns an error; return "run: <err>".
StartFail ==
    /\ pc = "main"
    /\ Name \in RunNames
    /\ \E e \in SubsystemErrors :
          /\ entryErr' = <<e>>
          /\ result' = <<Errorf("run", e)>>
    /\ invoked' = invoked \cup {"run"}
    /\ startFailed' = TRUE
    /\ pc' = "returned"
    /\ UNCHANGED <<args, exitCode, log, registered, timerArmed, readyAtEnd>>
    /\ UNCHANGED envVars
    /\ UNCHANGED regVars

\* The channel is made but signal.Notify is not called before the
\* announcement.
NotifySkipped ==
    /\ pc = "notify"
    /\ pc' = "announce"
    /\ UNCHANGED <<args, result, exitCode, invoked, startFailed, log,
                   registered, timerArmed, readyAtEnd>>
    /\ UNCHANGED envVars
    /\ UNCHANGED entryErr
    /\ UNCHANGED regVars

\* signalCh := make(chan os.Signal, 1); signal.Notify(signalCh, ...)
Notify ==
    /\ pc = "notify"
    /\ registered' = TRUE
    /\ pc' = "announce"
    /\ UNCHANGED <<args, result, exitCode, invoked, startFailed, log,
                   timerArmed, readyAtEnd>>
    /\ UNCHANGED envVars
    /\ UNCHANGED entryErr
    /\ UNCHANGED regVars

\* m.Logger.Info("Listening for signals")
Announce ==
    /\ pc = "announce"
    /\ log' = Append(log, MsgListening)
    /\ pc' = "wait1"
    /\ UNCHANGED <<args, result, exitCode, invoked, startFailed, registered,
                   timerArmed, readyAtEnd>>
    /\ UNCHANGED envVars
    /\ UNCHANGED entryErr
    /\ UNCHANGED regVars

\* A first wait that also wakes when cmd.Closed is closed.
RecvFirstOrClosed ==
    /\ pc = "wait1"
    /\ signalCh # <<>> \/ closedCh
    /\ signalCh' = IF signalCh # <<>> THEN Tail(signalCh) ELSE signalCh
    /\ nConsumed' = IF signalCh # <<>> THEN nConsumed + 1 ELSE nConsumed
    /\ log' = Append(log, MsgSignal)
    /\ pc' = "spawn"
    /\ UNCHANGED <<args, result, exitCode, invoked, startFailed, registered,
                   timerArmed, readyAtEnd>>
    /\ UNCHANGED <<elapsed, timerCh, closeState, closedCh, nDelivered,
                   nQueued, events>>
    /\ UNCHANGED entryErr
    /\ UNCHANGED regVars

\* <-signalCh; m.Logger.Info("Signal received, ...")
RecvFirst ==
    /\ pc = "wait1"
    /\ signalCh # <<>>
    /\ signalCh' = Tail(signalCh)
    /\ nConsumed' = nConsumed + 1
    /\ log' = Append(log, MsgSignal)
    /\ pc' = "spawn"
    /\ UNCHANGED <<args, result, exitCode, invoked, startFailed, registered,
                   timerArmed, readyAtEnd>>
    /\ UNCHANGED <<elapsed, timerCh, closeState, closedCh, nDelivered,
                   nQueued, events>>
    /\ UNCHANGED entryErr
    /\ UNCHANGED regVars

\* cmd.Close() called without `go`: Main.Run goes on once it has returned.
SpawnCloseSync ==
    /\ pc = "spawn"
    /\ closeState' \in {"returnedNil", "returnedErr"}
    /\ closedCh' = TRUE
    /\ events' = IF closedCh THEN events ELSE Append(events, "closed")
    /\ log' = Append(log, MsgWaiting)
    /\ pc' = "select"
    /\ UNCHANGED <<args, result, exitCode, invoked, startFailed, registered,
                   timerArmed, readyAtEnd>>
    /\ UNCHANGED <<signalCh, elapsed, timerCh, nDelivered, nQueued,
                   nConsumed>>
    /\ UNCHANGED entryErr
    /\ UNCHANGED regVars

\* go cmd.Close(); m.Logger.Info("Waiting for clean shutdown...")
\* The go statement starts the call and drops what it returns.
SpawnClose ==
    /\ pc = "spawn"
    /\ closeState' = "running"
    /\ log' = Append(log, MsgWaiting)
    /\ pc' = "select"
    /\ UNCHANGED <<args, result, exitCode, invoked, startFailed, registered,
                   timerArmed, readyAtEnd>>
    /\ UNCHANGED <<signalCh, elapsed, timerCh, closedCh, nDelivered, nQueued,
                   nConsumed, events>>
    /\ UNCHANGED entryErr
    /\ UNCHANGED regVars

\* Entering the select evaluates time.After(time.Second * 30) once.
SelectEnter ==
    /\ pc = "select"
    /\ timerArmed' = TRUE
    /\ pc' = "selectWait"
    /\ UNCHANGED <<args, result, exitCode, invoked, startFailed, log,
                   registered, readyAtEnd>>
    /\ UNCHANGED envVars
    /\ UNCHANGED entryErr
    /\ UNCHANGED regVars

\* The communications of the select that can proceed. A select with several
\* of them able to proceed takes one of them, whichever it is (the language
\* promises a pseudo-random choice, not the earliest); the main goroutine may
\* run the choice any time after an event made a case ready.
SignalReady == signalCh # <<>>
TimerReady == timerCh = 1
ClosedReady == closedCh
ReadyCases ==
    (IF SignalReady THEN {"signal"} ELSE {})
    \cup (IF TimerReady THEN {"timer"} ELSE {})
    \cup (IF ClosedReady THEN {"closed"} ELSE {})

\* A select case that returns an error instead of falling out of the switch.
EndSelectWithError(msg) ==
    /\ log' = Append(log, msg)
    /\ readyAtEnd' = ReadyCases
    /\ result' = <<Errorf("run", [msg |-> <<msg>>, cause |-> <<>>])>>
    /\ pc' = "returned"
    /\ UNCHANGED <<args, exitCode, invoked, startFailed, registered,
                   timerArmed>>
    /\ UNCHANGED entryErr
    /\ UNCHANGED regVars

\* The end of a select case: falls out of the switch to "return nil".
EndSelect(msg) ==
    /\ log' = Append(log, msg)
    /\ readyAtEnd' = ReadyCases
    /\ result' = <<NoError>>
    /\ pc' = "returned"
    /\ UNCHANGED <<args, exitCode, invoked, startFailed, registered,
                   timerArmed>>
    /\ UNCHANGED entryErr
    /\ UNCHANGED regVars

\* case <-signalCh: "second signal received, initializing hard shutdown"
SelectSignal ==
    /\ pc = "selectWait"
    /\ SignalReady
    /\ signalCh' = Tail(signalCh)
    /\ nConsumed' = nConsumed + 1
    /\ EndSelect(MsgSecondSignal)
    /\ UNCHANGED <<elapsed, timerCh, closeState, closedCh, nDelivered,
                   nQueued, events>>

\* A timer case that can proceed as soon as the timer exists (a zero
\* duration).
SelectTimeoutArmed ==
    /\ pc = "selectWait"
    /\ timerArmed
    /\ timerCh' = 0
    /\ EndSelect(MsgTimeLimit)
    /\ UNCHANGED <<signalCh, elapsed, closeState, closedCh, nDelivered,
                   nQueued, nConsumed, events>>

\* case <-time.After(...): "time limit reached, initializing hard shutdown"
SelectTimeout ==
    /\ pc = "selectWait"
    /\ TimerReady
    /\ timerCh' = 0
    /\ EndSelect(MsgTimeLimit)
    /\ UNCHANGED <<signalCh, elapsed, closeState, closedCh, nDelivered,
                   nQueued, nConsumed, events>>

\* A completion case that proceeds once cmd.Close() has been started, not
\* once it has completed.
SelectClosedStarted ==
    /\ pc = "selectWait"
    /\ closeState # "notStarted"
    /\ EndSelect(MsgCompleted)
    /\ UNCHANGED envVars

\* case <-cmd.Closed: "server shutdown completed"
SelectClosed ==
    /\ pc = "selectWait"
    /\ ClosedReady
    /\ EndSelect(MsgCompleted)
    /\ UNCHANGED envVars

(* ------------------------------------------- Main.Run: the other commands *)

\* A subsystem case that drops the error of its entry point.
SubCommandSwallows ==
    /\ pc = "main"
    /\ Name \in SubNames
    /\ invoked' = invoked \cup {Name}
    /\ \E e \in SubsystemErrors \cup {NoError} : entryErr' = <<e>>
    /\ result' = <<NoError>>
    /\ pc' = "returned"
    /\ UNCHANGED <<args, exitCode, startFailed, log, registered, timerArmed,
                   readyAtEnd>>
    /\ UNCHANGED envVars
    /\ UNCHANGED regVars

\* case "backup", "restore", "config", "version", "help": run the subsystem
\* and return nil, or "<name>: <err>" when it fails.
SubCommand ==
    /\ pc = "main"
    /\ Name \in SubNames
    /\ invoked' = invoked \cup {Name}
    /\ \E e \in SubsystemErrors \cup {NoError} :
          /\ entryErr' = <<e>>
          /\ result' = IF e = NoError THEN <<NoError>> ELSE <<Errorf(Name, e)>>
    /\ pc' = "returned"
    /\ UNCHANGED <<args, exitCode, startFailed, log, registered, timerArmed,
                   readyAtEnd>>
    /\ UNCHANGED envVars
    /\ UNCHANGED regVars

\* A default case that shows the usage through the help subsystem instead
\* of returning an error.
UnknownCommandRunsHelp ==
    /\ pc = "main"
    /\ Name \notin RunNames \cup SubNames
    /\ invoked' = invoked \cup {"help"}
    /\ result' = <<NoError>>
    /\ pc' = "returned"
    /\ UNCHANGED <<args, exitCode, startFailed, log, registered, timerArmed,
                   readyAtEnd, entryErr>>
    /\ UNCHANGED envVars
    /\ UNCHANGED regVars

\* default: return the unknown-command error.
UnknownCommand ==
    /\ pc = "main"
    /\ Name \notin RunNames \cup SubNames
    /\ result' = <<UnknownCommandError(Name)>>
    /\ pc' = "returned"
    /\ UNCHANGED <<args, exitCode, invoked, startFailed, log, registered,
                   timerArmed, readyAtEnd>>
    /\ UNCHANGED envVars
    /\ UNCHANGED entryErr
    /\ UNCHANGED regVars

(* ------------------------------------------------------------------- main *)

\* A main that exits with status 1 whatever m.Run returned.
MainExitFailure ==
    /\ pc = "returned"
    /\ exitCode' = <<ExitFailure>>
    /\ pc' = "exited"
    /\ UNCHANGED <<args, result, invoked, startFailed, log, registered,
                   timerArmed, readyAtEnd, entryErr>>
    /\ UNCHANGED envVars
    /\ UNCHANGED regVars

\* main: os.Exit(1) when m.Run returned an error, else return (status 0).
MainExit ==
    /\ pc = "returned"
    /\ exitCode' = IF result = <<NoError>> THEN <<ExitSuccess>>
                   ELSE <<ExitFailure>>
    /\ pc' = "exited"
    /\ UNCHANGED <<args, result, invoked, startFailed, log, registered,
                   timerArmed, readyAtEnd>>
    /\ UNCHANGED envVars
    /\ UNCHANGED entryErr
    /\ UNCHANGED regVars

(* ------------------------------------------------------------ environment *)

\* A termination signal while no channel is registered for it: the Go
\* runtime's default for SIGINT and SIGTERM ends the program.
SignalKill ==
    /\ Alive
    /\ nDelivered < MaxSignals
    /\ ~registered
    /\ nDelivered' = nDelivered + 1
    /\ pc' = "killed"
    /\ UNCHANGED <<args, result, exitCode, invoked, startFailed, log,
                   registered, timerArmed, readyAtEnd>>
    /\ UNCHANGED <<signalCh, elapsed, timerCh, closeState, closedCh, nQueued,
                   nConsumed, events>>
    /\ UNCHANGED entryErr
    /\ UNCHANGED regVars

\* A termination signal after signal.Notify, with room in signalCh: os/signal
\* sends it to the channel.
SignalQueue ==
    /\ Alive
    /\ nDelivered < MaxSignals
    /\ registered
    /\ Len(signalCh) < SignalChCap
    /\ \E s \in Signals : signalCh' = Append(signalCh, s)
    /\ nDelivered' = nDelivered + 1
    /\ nQueued' = nQueued + 1
    /\ events' = IF nConsumed >= 1 /\ "signal" \notin {events[i] : i \in DOMAIN events}
                 THEN Append(events, "signal") ELSE events
    /\ UNCHANGED coordVars
    /\ UNCHANGED <<elapsed, timerCh, closeState, closedCh, nConsumed>>
    /\ UNCHANGED regVars

\* A termination signal after signal.Notify while signalCh is full: os/signal
\* does not block sending to the channel; the signal is discarded.
SignalDrop ==
    /\ Alive
    /\ nDelivered < MaxSignals
    /\ registered
    /\ Len(signalCh) >= SignalChCap
    /\ nDelivered' = nDelivered + 1
    /\ UNCHANGED coordVars
    /\ UNCHANGED <<signalCh, elapsed, timerCh, closeState, closedCh, nQueued,
                   nConsumed, events>>
    /\ UNCHANGED regVars

\* A clock whose timer never sends on its channel.
TickNeverFires ==
    /\ pc = "selectWait"
    /\ timerArmed
    /\ elapsed < Deadline
    /\ elapsed' = elapsed + 1
    /\ UNCHANGED coordVars
    /\ UNCHANGED <<signalCh, timerCh, closeState, closedCh, nDelivered,
                   nQueued, nConsumed, events>>
    /\ UNCHANGED regVars

\* A timer that fires one second early.
TickEarly ==
    /\ pc = "selectWait"
    /\ timerArmed
    /\ elapsed < Deadline
    /\ elapsed' = elapsed + 1
    /\ timerCh' = IF elapsed + 2 = Deadline THEN 1 ELSE timerCh
    /\ events' = IF elapsed + 2 = Deadline THEN Append(events, "timer")
                 ELSE events
    /\ UNCHANGED coordVars
    /\ UNCHANGED <<signalCh, closeState, closedCh, nDelivered, nQueued,
                   nConsumed>>
    /\ UNCHANGED regVars

\* One second passes while the select waits; at the deadline the runtime
\* sends on the timer's channel.
Tick ==
    /\ pc = "selectWait"
    /\ timerArmed
    /\ elapsed < Deadline
    /\ elapsed' = elapsed + 1
    /\ timerCh' = IF elapsed + 1 = Deadline THEN 1 ELSE timerCh
    /\ events' = IF elapsed + 1 = Deadline THEN Append(events, "timer")
                 ELSE events
    /\ UNCHANGED coordVars
    /\ UNCHANGED <<signalCh, closeState, closedCh, nDelivered, nQueued,
                   nConsumed>>
    /\ UNCHANGED regVars

\* cmd.Close() returns nil and the server closes cmd.Closed.
CloseOk ==
    /\ Alive
    /\ closeState = "running"
    /\ closeState' = "returnedNil"
    /\ closedCh' = TRUE
    /\ events' = IF closedCh THEN events ELSE Append(events, "closed")
    /\ UNCHANGED coordVars
    /\ UNCHANGED <<signalCh, elapsed, timerCh, nDelivered, nQueued, nConsumed>>
    /\ UNCHANGED regVars

\* cmd.Close() returns an error and the server closes cmd.Closed.
CloseErr ==
    /\ Alive
    /\ closeState = "running"
    /\ closeState' = "returnedErr"
    /\ closedCh' = TRUE
    /\ events' = IF closedCh THEN events ELSE Append(events, "closed")
    /\ UNCHANGED coordVars
    /\ UNCHANGED <<signalCh, elapsed, timerCh, nDelivered, nQueued, nConsumed>>
    /\ UNCHANGED regVars

\* The server shuts down by itself while Main.Run waits for the first
\* signal: cmd.Closed is closed although cmd.Close() was never started.
ClosedOnItsOwn ==
    /\ pc \in {"notify", "announce", "wait1"}
    /\ closeState = "notStarted"
    /\ ~closedCh
    /\ closedCh' = TRUE
    /\ events' = Append(events, "closed")
    /\ UNCHANGED coordVars
    /\ UNCHANGED <<signalCh, elapsed, timerCh, closeState, nDelivered,
                   nQueued, nConsumed>>
    /\ UNCHANGED regVars

(* ---------------------------------------------------------- specification *)

\* The steps of the main goroutine.
MainStep ==
    \/ StartOk
    \/ StartFail
    \/ Notify
    \/ Announce
    \/ RecvFirst
    \/ SpawnClose
    \/ SelectEnter
    \/ SelectSignal
    \/ SelectTimeout
    \/ SelectClosed
    \/ SubCommand
    \/ UnknownCommand
    \/ MainExit

Next ==
    \/ MainStep
    \/ SignalKill
    \/ SignalQueue
    \/ SignalDrop
    \/ Tick
    \/ CloseOk
    \/ CloseErr
    \/ ClosedOnItsOwn

Spec == Init /\ [][Next]_vars

\* The scheduler runs the main goroutine whenever it can take a step, and the
\* clock keeps advancing; signals and the return of cmd.Close() are not
\* promised.
FairSpec == Spec /\ WF_vars(MainStep) /\ WF_vars(Tick)

(* ------------------------------------------- the initialization phase *)

\* The initialization phase on its own, before main: engines register
\* themselves, then the registry is only read.
RegistryInit ==
    /\ MainInit({<<>>})
    /\ registry = EmptyRegistry
    /\ regFatal = FALSE
    /\ regDone = FALSE
    /\ regCalls = <<>>
    /\ lastLookup = <<>>

\* An engine package's init calls Register.
RegisterCall ==
    /\ ~regDone
    /\ ~regFatal
    /\ Len(regCalls) < MaxRegister
    /\ \E n \in EngineNames, f \in Factories :
          /\ registry' = Register(registry, n, f).registry
          /\ regFatal' = Register(registry, n, f).fatal
          /\ regCalls' = Append(regCalls, <<n, f>>)
    /\ UNCHANGED <<regDone, lastLookup>>
    /\ UNCHANGED <<coordVars, envVars>>

\* Initialization completes; a fatal conflict has ended the process before.
InitDone ==
    /\ ~regDone
    /\ ~regFatal
    /\ regDone' = TRUE
    /\ UNCHANGED <<registry, regFatal, regCalls, lastLookup>>
    /\ UNCHANGED <<coordVars, envVars>>

\* A Lookup after initialization.
LookupCall ==
    /\ regDone
    /\ \E n \in EngineNames : lastLookup' = <<n, Lookup(registry, n)>>
    /\ UNCHANGED <<registry, regFatal, regDone, regCalls>>
    /\ UNCHANGED <<coordVars, envVars>>

RegistryNext ==
    \/ RegisterCall
    \/ InitDone
    \/ LookupCall

RegistrySpec == RegistryInit /\ [][RegistryNext]_vars

(* ------------------------------------------------------ derived notions *)

\* The shutdown states of the coordinator, read off the program counter.
Running == pc \in {"notify", "announce", "wait1"}
ShutdownRequested == pc \in {"spawn", "select", "selectWait"}

IsOutcome(m) == m \in OutcomeMsgs
OutcomeLines == SelectSeq(log, IsOutcome)
Outcome == IF OutcomeLines = <<>> THEN "none" ELSE OutcomeLines[1]

\* Main.Run has returned out of the select.
ShutdownComplete == pc \in {"returned", "exited"} /\ Outcome # "none"

\* The second-stage event that fired first.
FirstEvent == IF events = <<>> THEN "none" ELSE Head(events)

\* The log line of the select case that receives an event.
MsgOf(ev) ==
    CASE ev = "signal" -> MsgSecondSignal
      [] ev = "timer" -> MsgTimeLimit
      [] ev = "closed" -> MsgCompleted
      [] OTHER -> "none"

Announced == \E i \in DOMAIN log : log[i] = MsgListening

\* The case of the switch a name selects, by the prefix its errors get.
KnownNames == RunNames \cup SubNames
CaseName == IF Name \in RunNames THEN "run" ELSE Name

\* Main.Run has returned.
Returned == result # <<>>

\* A log line that is none of the six fixed messages of Main.Run.
IsOtherLine(m) ==
    m \notin OutcomeMsgs \cup {MsgListening, MsgSignal, MsgWaiting}

(* ----------------------------------------------------------------- claims *)

\* C1: once the first termination signal has been received
\* (ShutdownRequested), Main.Run eventually returns out of the select, in
\* every fair behaviour: also when cmd.Close() never returns, cmd.Closed is
\* never closed and no further signal arrives.
C1_RunEventuallyReturns == ShutdownRequested ~> ShutdownComplete

\* C1 witness: Main.Run has returned on the deadline alone, cmd.Close() still
\* running and only the first signal ever sent.
C1_Witness ==
    /\ ShutdownComplete
    /\ Outcome = MsgTimeLimit
    /\ closeState = "running"
    /\ ~closedCh
    /\ nDelivered = 1

C4_NoSignalMissed ==
    registered => nDelivered = nConsumed + Len(signalCh)

\* C5: a signal delivered after the server started and before signal.Notify
\* is not lost: it does not end the process unobserved.
C5_EarlySignalObserved ==
    ("run" \in invoked /\ ~startFailed /\ nDelivered >= 1 /\ ~registered)
        => pc # "killed"

\* C6: signal.Notify has been called when "Listening for signals" is logged,
\* and every signal sent after that line is put into signalCh or finds
\* signalCh full.
C6_RegisteredBeforeAnnounce ==
    /\ [](Announced => registered)
    /\ [][(Announced /\ nDelivered' = nDelivered + 1) =>
            \/ /\ Len(signalCh) < SignalChCap
               /\ \E s \in Signals : signalCh' = Append(signalCh, s)
            \/ /\ Len(signalCh) = SignalChCap
               /\ signalCh' = signalCh]_vars

\* C6 witness: after the announcement one signal was put into signalCh and a
\* later one found it full.
C6_Witness ==
    /\ Announced
    /\ registered
    /\ nDelivered = 2
    /\ nQueued = 1
    /\ Len(signalCh) = SignalChCap

\* C7: when the server's start fails, Main.Run has returned "run: <err>", and
\* nothing of the shutdown state machine happened: no signal.Notify, no log
\* line, no receive from signalCh, no timer, no cmd.Close().
C7_StartFailureReturnsAtOnce ==
    startFailed =>
        /\ \E e \in SubsystemErrors : result = <<Errorf("run", e)>>
        /\ Head(result[1].msg) = "run"
        /\ pc \in {"returned", "exited", "killed"}
        /\ ~registered
        /\ log = <<>>
        /\ nConsumed = 0
        /\ ~timerArmed
        /\ closeState = "notStarted"

\* C7 witness: the start failed and the process has exited with status 1.
C7_Witness ==
    /\ startFailed
    /\ pc = "exited"
    /\ exitCode = <<ExitFailure>>

C9_TimeLimitAtDeadline ==
    /\ [](Outcome = MsgTimeLimit => (elapsed = Deadline /\ "timer" \in readyAtEnd))
    /\ []((ShutdownComplete /\ readyAtEnd \cap {"signal", "closed"} = {}) =>
            (Outcome = MsgTimeLimit /\ elapsed = Deadline))
    /\ [][(pc = "selectWait" /\ ReadyCases = {"timer"} /\ pc' # pc) =>
            Outcome' = MsgTimeLimit]_vars
    /\ [][(pc = "selectWait" /\ ReadyCases = {} /\ elapsed < Deadline) =>
            pc' = "selectWait"]_vars
    /\ ((pc = "selectWait" /\ TimerReady) ~> ShutdownComplete)

\* C9 witness: cmd.Close() never returned, no second signal, and the wait
\* ended with "time limit reached" after 30 ticks.
C9_Witness ==
    /\ ShutdownComplete
    /\ Outcome = MsgTimeLimit
    /\ elapsed = Deadline
    /\ readyAtEnd = {"timer"}
    /\ closeState = "running"
    /\ nDelivered = 1

\* C10: when cmd.Close() has returned an error and Main.Run has returned, a
\* log line reports that error.
C10_CloseErrorLogged ==
    (ShutdownComplete /\ closeState = "returnedErr") =>
        \E i \in DOMAIN log : IsOtherLine(log[i])

\* C11: once the server has started, Main.Run returns nil and the process
\* exits with status 0, for each of the three outcomes and whatever
\* cmd.Close() returned; status 1 occurs only when Main.Run returned the
\* start's error, a subsystem's error or the unknown-command error.
C11_ShutdownErrorsNotPropagated ==
    /\ ("run" \in invoked /\ ~startFailed /\ Returned) =>
          (ShutdownComplete /\ result = <<NoError>>)
    /\ ShutdownComplete =>
          /\ result = <<NoError>>
          /\ pc = "exited" => exitCode = <<ExitSuccess>>
    /\ exitCode = <<ExitFailure>> =>
          /\ ~ShutdownComplete
          /\ \/ startFailed /\ result = <<Errorf("run", entryErr[1])>>
             \/ /\ Name \in SubNames
                /\ entryErr[1] # NoError
                /\ result = <<Errorf(Name, entryErr[1])>>
             \/ Name \notin KnownNames /\ result = <<UnknownCommandError(Name)>>

\* C11 witness: cmd.Close() returned an error, the wait ended, and the
\* process exited with status 0.
C11_Witness ==
    /\ ShutdownComplete
    /\ closeState = "returnedErr"
    /\ result = <<NoError>>
    /\ exitCode = <<ExitSuccess>>

\* C12: for a name outside the known set Main.Run returns the unknown-command
\* error, naming the command and hinting at 'help', without blocking; no
\* subsystem entry point is invoked, signal.Notify is not called and nothing
\* of the shutdown wait happens.
C12_UnknownCommandRejected ==
    Name \notin KnownNames =>
        /\ invoked = {}
        /\ entryErr = <<>>
        /\ ~registered
        /\ log = <<>>
        /\ nConsumed = 0
        /\ ~timerArmed
        /\ closeState = "notStarted"
        /\ pc \in {"main", "returned", "exited", "killed"}
        /\ pc = "main" => ENABLED UnknownCommand
        /\ pc \in {"returned", "exited"} =>
              /\ result = <<UnknownCommandError(Name)>>
              /\ result[1].msg[1] = "unknown command"
              /\ result[1].msg[2] = Head(args)
              /\ result[1].msg[3] = "Run 'influxd help' for usage"
        /\ pc = "exited" => exitCode = <<ExitFailure>>

\* C12 witness: an unknown name followed by a known one was rejected and the
\* process exited with status 1.
C12_Witness ==
    /\ args = <<"bogus", "run">>
    /\ pc = "exited"
    /\ result = <<UnknownCommandError("bogus")>>
    /\ invoked = {}

\* C14: for a known command Main.Run invokes one entry point, the one of the
\* case the name selects, and no other; when it returned an error Main.Run
\* returns an error prefixed with the command's name, and Main.Run returns nil
\* only when the entry point returned nil.
C14_OneSubsystemNoSwallowedError ==
    /\ Cardinality(invoked) <= 1
    /\ Name \in KnownNames =>
          /\ invoked \subseteq {CaseName}
          /\ Returned =>
                /\ invoked = {CaseName}
                /\ Len(entryErr) = 1
                /\ entryErr[1] # NoError =>
                      /\ result # <<NoError>>
                      /\ result = <<Errorf(CaseName, entryErr[1])>>
                      /\ Head(result[1].msg) = CaseName
                /\ result = <<NoError>> => entryErr[1] = NoError

\* C14 witness: the restore subsystem failed and Main.Run returned
\* "restore: <err>", having invoked nothing else.
C14_Witness ==
    /\ args = <<"restore">>
    /\ Returned
    /\ invoked = {"restore"}
    /\ entryErr[1] # NoError
    /\ Head(result[1].msg) = "restore"

\* C15: when a subsystem returned an error, the error Main.Run returns
\* carries the command name as prefix and wraps the subsystem's error, so
\* that unwrapping it yields that error value.
C15_CausePreserved ==
    (Returned /\ entryErr # <<>> /\ entryErr[1] # NoError) =>
        /\ Head(result[1].msg) = CaseName
        /\ result[1].cause = <<entryErr[1]>>

\* C13: an absent or empty command name selects the same case as "run": the
\* server's start is what Main.Run calls (no other entry point, not the
\* default case), and what Main.Run returns is what the run case returns.
C13_EmptyNameIsRun ==
    (args \in {<<>>, <<"">>, <<"run">>}) =>
        /\ pc = "main" =>
              /\ ENABLED StartOk
              /\ ENABLED StartFail
              /\ ~ENABLED SubCommand
              /\ ~ENABLED UnknownCommand
        /\ invoked \subseteq {"run"}
        /\ pc \notin {"main", "killed"} => invoked = {"run"}
        /\ Returned =>
              \/ result = <<NoError>> /\ ShutdownComplete
              \/ startFailed /\ result = <<Errorf("run", entryErr[1])>>

\* C13 witness: with no command name the server was started, a signal was
\* received and Main.Run returned out of the shutdown wait.
C13_Witness ==
    /\ args = <<>>
    /\ invoked = {"run"}
    /\ ShutdownComplete
    /\ result = <<NoError>>

\* The Register calls made under a name, and the factory of the first.
CallsOf(n) == {i \in DOMAIN regCalls : regCalls[i][1] = n}
FirstFactory(n) ==
    IF CallsOf(n) = {} THEN NotFound
    ELSE regCalls[CHOOSE i \in CallsOf(n) : \A j \in CallsOf(n) : i <= j][2]

\* C16: a Register under a name already registered ends in the fatal
\* conflict (initialization never completes) and leaves the entry as it was;
\* Register calls under distinct names never conflict; and Lookup returns the
\* factory first registered under the name, NotFound for a name never
\* registered.
C16_RegistryUniqueNames ==
    /\ regFatal <=> \E n \in EngineNames : Cardinality(CallsOf(n)) >= 2
    /\ regFatal => ~regDone
    /\ \A n \in EngineNames : registry[n] = FirstFactory(n)
    /\ lastLookup # <<>> => lastLookup[2] = FirstFactory(lastLookup[1])

\* C16 witness: tsm1 was registered twice with different factories: the
\* conflict is fatal and the first factory is still the entry.
C16_Witness ==
    /\ regCalls = << <<"tsm1", "NewEngine1">>, <<"b1", "NewEngine2">>,
                    <<"tsm1", "NewEngine2">> >>
    /\ regFatal
    /\ registry["tsm1"] = "NewEngine1"
    /\ registry["b1"] = "NewEngine2"
    /\ registry["bz1"] = NotFound

\* C17: while Main.Run waits for the first signal only a signal moves it on:
\* with no signal received it has not returned, no timer exists, cmd.Close()
\* has not been started and no outcome is logged, also when cmd.Closed has
\* been closed; it leaves the first wait only by receiving from signalCh.
C17_OnlySignalLeavesRunning ==
    /\ []((("run" \in invoked) /\ ~startFailed /\ nConsumed = 0) =>
            /\ pc \in {"notify", "announce", "wait1", "killed"}
            /\ ~Returned
            /\ ~timerArmed
            /\ closeState = "notStarted"
            /\ Outcome = "none"
            /\ readyAtEnd = {})
    /\ []((pc = "wait1" /\ signalCh = <<>>) => ~ENABLED MainStep)
    /\ [][(pc = "wait1" /\ pc' # "wait1") =>
            /\ signalCh # <<>>
            /\ nConsumed' = nConsumed + 1
            /\ pc' = "spawn"]_vars

\* C17 witness: cmd.Closed was closed while no signal had been delivered,
\* and Main.Run is still in its first wait.
C17_Witness ==
    /\ pc = "wait1"
    /\ closedCh
    /\ nDelivered = 0
    /\ signalCh = <<>>
    /\ ~Returned

\* C18: cmd.Close() is started at most once, by the go statement of Main.Run
\* only: after the first signal was received and before the select is
\* entered, as a task of its own (it is running, not awaited, when Main.Run
\* goes on, and the select is entered whether or not it has returned); it is
\* not started during the first wait, after a failed start, or for a command
\* other than run.
C18_CloseStartedOnceAsTask ==
    /\ [][(closeState = "notStarted" /\ closeState' # "notStarted") =>
            /\ pc = "spawn"
            /\ pc' = "select"
            /\ closeState' = "running"
            /\ nConsumed = 1
            /\ ~timerArmed
            /\ Name \in RunNames
            /\ ~startFailed]_vars
    /\ [][closeState # "notStarted" =>
            /\ closeState' # "notStarted"
            /\ closeState # "running" => closeState' = closeState]_vars
    /\ []((pc \in {"main", "notify", "announce", "wait1", "spawn"}
             \/ startFailed \/ Name \notin RunNames \/ nConsumed = 0)
            => closeState = "notStarted")
    /\ [](pc \in {"select", "selectWait"} => closeState # "notStarted")
    /\ [](pc = "select" => ENABLED SelectEnter)

\* C18 witness: Main.Run has been in the three-way wait for a second while
\* cmd.Close() is still running.
C18_Witness ==
    /\ pc = "selectWait"
    /\ closeState = "running"
    /\ ~closedCh
    /\ elapsed = 1
    /\ nConsumed = 1

====
